---- MODULE Spec2Model ----
(***************************************************************************)
(* QA Radar - Trust Risk Discovery (streamlit_app.py).                     *)
(*                                                                         *)
(* Four specifications over one set of variables:                          *)
(*   Spec      the discovery run (the "if run:" block): homepage fetch,    *)
(*             link extraction, bounding, the fetch loop, the brief;       *)
(*   SpecSev   propose_discovery_severity on arbitrary signal sequences;   *)
(*   SpecNorm  normalize_url on arbitrary short strings;                   *)
(*   SpecLinks extract_internal_links on arbitrary anchor lists.           *)
(* Each specification leaves the variables of the others at their idle     *)
(* values.                                                                 *)
(***************************************************************************)
EXTENDS Integers, Sequences, FiniteSets, TLC

VARIABLES
    \* ---- the discovery run
    pc,             \* "start" | "fetching" | "done" | "aborted"
    base_url,       \* normalize_url(raw_url), parsed
    max_pages,      \* the "Max pages" number input
    judgment_mode,  \* the "Judgment Mode" toggle
    final_home,     \* final URL of the homepage fetch
    base_origin,    \* scheme://netloc of final_home
    candidate_links,\* extract_internal_links(home_html, final_home)
    bounded,        \* the bounded traversal list
    idx,            \* position of the fetch loop in bounded (1-based)
    pages,          \* PageRecords
    fetch_errors,   \* fetch error records
    requests_made,  \* every call of safe_get so far: [url, ok]
    brief,          \* the assembled brief once the run completed
    \* ---- propose_discovery_severity
    signals, other_signals, sev_mode, proposal, other_proposal,
    \* ---- normalize_url
    raw, normalized, norm_done,
    \* ---- extract_internal_links
    anchors, link_base, links_out, links_done

runVars   == <<pc, base_url, max_pages, judgment_mode, final_home, base_origin,
               candidate_links, bounded, idx, pages, fetch_errors, requests_made, brief>>
sevVars   == <<signals, other_signals, sev_mode, proposal, other_proposal>>
normVars  == <<raw, normalized, norm_done>>
linkVars  == <<anchors, link_base, links_out, links_done>>
vars      == <<runVars, sevVars, normVars, linkVars>>

(***************************************************************************)
(* Bounds of the model.                                                    *)
(***************************************************************************)
MaxSignals == 4
MaxLen == 5
MaxAnchors == 2
MaxPagesBound == 3

RECURSIVE SeqsUpTo(_, _)
SeqsUpTo(S, n) ==
    IF n = 0 THEN {<<>>}
    ELSE LET shorter == SeqsUpTo(S, n - 1)
         IN  shorter \cup {Append(s, x) : s \in shorter, x \in S}

(***************************************************************************)
(* Severity proposal.                                                      *)
(***************************************************************************)
Severities == {"Low", "Medium", "High", "Critical"}
Confidences == {"Low", "Moderate", "High"}

sev_rank(s) ==
    CASE s = "Low" -> 1
      [] s = "Medium" -> 2
      [] s = "High" -> 3
      [] s = "Critical" -> 4
      [] OTHER -> 1

conf_cap(c) ==
    CASE c = "Low" -> 2
      [] c = "Moderate" -> 3
      [] c = "High" -> 4
      [] OTHER -> 2

conf_levels(c) ==
    CASE c = "Low" -> 0
      [] c = "Moderate" -> 1
      [] c = "High" -> 2
      [] OTHER -> 0

\* A cap that never lowers anything.
cap_severity_uncapped(severity, confidence) == severity

cap_severity_by_confidence(severity, confidence) ==
    LET max_allowed == conf_cap(confidence)
    IN  IF sev_rank(severity) > max_allowed
        THEN CHOOSE s \in Severities :
                /\ sev_rank(s) <= max_allowed
                /\ \A t \in Severities :
                      sev_rank(t) <= max_allowed => sev_rank(t) <= sev_rank(s)
        ELSE severity

RECURSIVE MaxConf(_)
MaxConf(sigs) ==
    IF Len(sigs) = 1 THEN conf_levels(sigs[1].confidence)
    ELSE LET rest == MaxConf(Tail(sigs))
             here == conf_levels(sigs[1].confidence)
         IN  IF here >= rest THEN here ELSE rest

\* Discovery mode escalates one signal too late (count > 3).
propose_late_threshold(sigs, jm) ==
    IF sigs = <<>> THEN <<"Low", "High">>
    ELSE LET count == Len(sigs)
             conf_score == MaxConf(sigs)
             overall_conf == IF conf_score = 0 THEN "Low"
                             ELSE IF conf_score = 1 THEN "Moderate" ELSE "High"
         IN  IF ~jm
             THEN IF count > 3 THEN <<"Medium", overall_conf>>
                               ELSE <<"Low", overall_conf>>
             ELSE LET sev == IF count > 4 THEN "High"
                             ELSE IF count > 2 THEN "Medium" ELSE "Low"
                  IN  <<cap_severity_by_confidence(sev, overall_conf), overall_conf>>

\* Judgment mode with the two upper branches swapped.
propose_swapped_branches(sigs, jm) ==
    IF sigs = <<>> THEN <<"Low", "High">>
    ELSE LET count == Len(sigs)
             conf_score == MaxConf(sigs)
             overall_conf == IF conf_score = 0 THEN "Low"
                             ELSE IF conf_score = 1 THEN "Moderate" ELSE "High"
         IN  IF ~jm
             THEN IF count >= 3 THEN <<"Medium", overall_conf>>
                                ELSE <<"Low", overall_conf>>
             ELSE LET sev == IF count >= 4 THEN "Low"
                             ELSE IF count >= 2 THEN "Medium" ELSE "Low"
                  IN  <<cap_severity_by_confidence(sev, overall_conf), overall_conf>>

propose_discovery_severity(sigs, jm) ==
    IF sigs = <<>> THEN <<"Low", "High">>
    ELSE LET count == Len(sigs)
             conf_score == MaxConf(sigs)
             overall_conf == IF conf_score = 0 THEN "Low"
                             ELSE IF conf_score = 1 THEN "Moderate" ELSE "High"
         IN  IF ~jm
             THEN IF count >= 3 THEN <<"Medium", overall_conf>>
                                ELSE <<"Low", overall_conf>>
             ELSE LET sev == IF count >= 4 THEN "High"
                             ELSE IF count >= 2 THEN "Medium" ELSE "Low"
                  IN  <<cap_severity_by_confidence(sev, overall_conf), overall_conf>>

(***************************************************************************)
(* normalize_url.  Strings are sequences of characters.                    *)
(***************************************************************************)
Chars == {"h", "t", "p", "a", ":", "/", " "}
HttpPrefix == <<"h", "t", "t", "p">>
HttpsScheme == <<"h", "t", "t", "p", "s", ":", "/", "/">>

RECURSIVE lstrip(_)
lstrip(s) == IF s # <<>> /\ s[1] = " " THEN lstrip(Tail(s)) ELSE s

RECURSIVE rstrip(_)
rstrip(s) ==
    IF s # <<>> /\ s[Len(s)] = " " THEN rstrip(SubSeq(s, 1, Len(s) - 1)) ELSE s

strip(s) == rstrip(lstrip(s))

startswith(s, prefix) ==
    Len(s) >= Len(prefix) /\ SubSeq(s, 1, Len(prefix)) = prefix

normalize_url(r) ==
    LET trimmed == strip(r)
    IN  IF trimmed = <<>> THEN <<>>
        ELSE IF ~startswith(trimmed, HttpPrefix) THEN HttpsScheme \o trimmed
             ELSE trimmed

(***************************************************************************)
(* URLs.  A URL is held parsed, as urlparse gives it: scheme, netloc and   *)
(* path (query and fragment are the "noise" the extractor drops).  A path  *)
(* is a sequence of tokens; the tokens form a prefix code with distinct    *)
(* first characters, so token order is Python's string order.              *)
(***************************************************************************)
Schemes == {"http", "https"}
Netlocs == {"h1", "h2"}

Url(s, n, p) == [scheme |-> s, netloc |-> n, path |-> p]

TokenOrd(t) ==
    CASE t = "/" -> 47
      [] t = "a" -> 97
      [] t = "checkout" -> 99
      [] t = "help" -> 104

SchemeOrd(s) == IF s = "http" THEN 1 ELSE 2
NetlocOrd(n) == IF n = "h1" THEN 1 ELSE 2

RECURSIVE PathLess(_, _)
PathLess(p, q) ==
    IF p = <<>> THEN q # <<>>
    ELSE IF q = <<>> THEN FALSE
    ELSE IF p[1] = q[1] THEN PathLess(Tail(p), Tail(q))
    ELSE TokenOrd(p[1]) < TokenOrd(q[1])

\* Python's "<" on the strings scheme://netloc+path.
UrlLess(u, v) ==
    IF u.scheme # v.scheme THEN SchemeOrd(u.scheme) < SchemeOrd(v.scheme)
    ELSE IF u.netloc # v.netloc THEN NetlocOrd(u.netloc) < NetlocOrd(v.netloc)
    ELSE PathLess(u.path, v.path)

RECURSIVE sorted(_)
sorted(S) ==
    IF S = {} THEN <<>>
    ELSE LET m == CHOOSE x \in S : \A y \in S \ {x} : UrlLess(x, y)
         IN  <<m>> \o sorted(S \ {m})

same_origin(a, b) == <<a.scheme, a.netloc>> = <<b.scheme, b.netloc>>

(***************************************************************************)
(* Anchors.  An href (already stripped of whitespace) is one of:           *)
(*   "abs"     scheme://netloc path [?query#fragment]                      *)
(*   "netrel"  //netloc path                                               *)
(*   "rel"     path [?query#fragment], with or without a leading "/"       *)
(*   "empty", "frag" (#...), "mailto", "tel", "javascript"                 *)
(***************************************************************************)
Href(k, s, n, p, noise) ==
    [kind |-> k, scheme |-> s, netloc |-> n, path |-> p, noise |-> noise]

SkippedKinds == {"empty", "frag", "mailto", "tel", "javascript"}

Hrefs ==
    {Href("abs", s, n, p, FALSE) :
        s \in Schemes, n \in Netlocs, p \in {<<>>, <<"/", "a">>, <<"/", "a", "/">>}}
    \cup {Href("netrel", "", n, p, FALSE) : n \in Netlocs, p \in {<<>>, <<"/", "a">>}}
    \cup {Href("rel", "", "", p, FALSE) :
            p \in {<<"/">>, <<"/", "a">>, <<"a">>, <<"/", "help">>}}
    \cup {Href("rel", "", "", <<>>, TRUE), Href("rel", "", "", <<"/", "checkout">>, TRUE)}
    \cup {Href(k, "", "", <<>>, FALSE) : k \in SkippedKinds}

\* urljoin(base_origin, href), parsed; base_origin has an empty path.
urljoin(base_origin_url, href) ==
    CASE href.kind = "abs" -> Url(href.scheme, href.netloc, href.path)
      [] href.kind = "netrel" -> Url(base_origin_url.scheme, href.netloc, href.path)
      [] OTHER ->
            IF href.path = <<>> \/ href.path[1] = "/"
            THEN Url(base_origin_url.scheme, base_origin_url.netloc, href.path)
            ELSE Url(base_origin_url.scheme, base_origin_url.netloc,
                     <<"/">> \o href.path)

\* clean = scheme://netloc+path without one trailing "/".  The netloc is
\* not empty, so the string ends with "/" exactly when the path does.
clean_url(p) ==
    IF p.path # <<>> /\ p.path[Len(p.path)] = "/"
    THEN Url(p.scheme, p.netloc, SubSeq(p.path, 1, Len(p.path) - 1))
    ELSE Url(p.scheme, p.netloc, p.path)

\* The extractor without its same-origin test.
extract_links_unfiltered(hrefs, base) ==
    LET origin == Url(base.scheme, base.netloc, <<>>)
        kept == {i \in 1..Len(hrefs) : hrefs[i].kind \notin SkippedKinds}
    IN  sorted({clean_url(urljoin(origin, hrefs[i])) : i \in kept})

extract_internal_links(hrefs, base) ==
    LET origin == Url(base.scheme, base.netloc, <<>>)
        kept == {i \in 1..Len(hrefs) : hrefs[i].kind \notin SkippedKinds}
        internal == {i \in kept : urljoin(origin, hrefs[i]).netloc = base.netloc}
    IN  sorted({clean_url(urljoin(origin, hrefs[i])) : i \in internal})

(***************************************************************************)
(* Page text.  A response body is reduced to what the code reads from it:  *)
(* whether it is empty, whether it holds "<html", the hrefs of its         *)
(* anchors, and the outcome of each pattern of the signal detector.        *)
(***************************************************************************)
Text(present, tag, hrefs, beta, strong, h1, policy, support) ==
    [present |-> present, html_tag |-> tag, hrefs |-> hrefs, beta |-> beta,
     strong |-> strong, h1_count |-> h1, policy |-> policy, support |-> support]

EmptyText == Text(FALSE, FALSE, <<>>, FALSE, FALSE, 0, FALSE, FALSE)

\* What requests.get did: it raised, or it gave a response.
Response(raised, url, status, ct, text) ==
    [raised |-> raised, url |-> url, status_code |-> status, ct_html |-> ct,
     text |-> text]

\* (final_url, status_code, html_text, error_str)
safe_get(url, resp) ==
    IF resp.raised
    THEN [final_url |-> url, status |-> "None", html |-> EmptyText,
          error |-> "exception"]
    ELSE IF resp.status_code = "200" /\ resp.ct_html
    THEN [final_url |-> resp.url, status |-> resp.status_code, html |-> resp.text,
          error |-> ""]
    ELSE IF resp.status_code = "200" /\ resp.text.present /\ resp.text.html_tag
    THEN [final_url |-> resp.url, status |-> resp.status_code, html |-> resp.text,
          error |-> ""]
    ELSE [final_url |-> resp.url, status |-> resp.status_code, html |-> EmptyText,
          error |-> "non-html-or-non-200"]

SupportWords == {"help", "support", "contact", "faq", "returns", "refund",
                 "shipping", "privacy", "terms"}
TransactionWords == {"checkout", "cart", "pay", "pricing", "subscribe", "billing",
                     "plans", "order"}

\* No keyword spans two tokens of a path, so "x in path" is a token test.
classify_trust_domain(url) ==
    IF \E i \in 1..Len(url.path) : url.path[i] \in SupportWords
    THEN "Support Reliability"
    ELSE IF \E i \in 1..Len(url.path) : url.path[i] \in TransactionWords
    THEN "Transaction Safety"
    ELSE "Brand Credibility"

Signal(name, confidence) == [signal |-> name, confidence |-> confidence]

detect_observable_signals(html) ==
    (IF html.beta THEN <<Signal("beta", "Moderate")>> ELSE <<>>)
    \o (IF html.strong THEN <<Signal("strong_claim", "Low")>> ELSE <<>>)
    \o (IF html.h1_count > 1 THEN <<Signal("multiple_h1", "Low")>> ELSE <<>>)
    \o (IF html.policy THEN <<Signal("policy", "Moderate")>> ELSE <<>>)
    \o (IF html.support THEN <<Signal("support", "Moderate")>> ELSE <<>>)

senior_review_prompt(domain) ==
    IF domain = "Transaction Safety" THEN "commercial intent vs readiness"
    ELSE IF domain = "Support Reliability" THEN "escalation routes"
    ELSE "claim density vs proof"

TrustDomains == {"Brand Credibility", "Transaction Safety", "Support Reliability"}

\* (total, domains_present, domains)
build_brief(pgs) ==
    LET domains == [d \in TrustDomains |->
                        SelectSeq(pgs, LAMBDA p : p.trust_domain = d)]
    IN  [total |-> Len(pgs),
         domains_present |-> Cardinality({d \in TrustDomains : domains[d] # <<>>}),
         domains |-> domains]

(***************************************************************************)
(* The bounded traversal list: homepage first, de-duplicated in order,     *)
(* cut at max_pages.                                                       *)
(***************************************************************************)
RECURSIVE BoundLoop(_, _, _, _)
BoundLoop(all_targets, i, acc, mp) ==
    IF i > Len(all_targets) THEN acc
    ELSE LET u == all_targets[i]
             acc2 == IF \E j \in 1..Len(acc) : acc[j] = u THEN acc
                     ELSE Append(acc, u)
         IN  IF Len(acc2) >= mp THEN acc2
             ELSE BoundLoop(all_targets, i + 1, acc2, mp)

\* The loop with its break test off by one (> instead of >=).
bound_targets_late_break(all_targets, mp) ==
    LET RECURSIVE Loop(_, _)
        Loop(i, acc) ==
            IF i > Len(all_targets) THEN acc
            ELSE LET u == all_targets[i]
                     acc2 == IF \E j \in 1..Len(acc) : acc[j] = u THEN acc
                             ELSE Append(acc, u)
                 IN  IF Len(acc2) > mp THEN acc2 ELSE Loop(i + 1, acc2)
    IN  Loop(1, <<>>)

bound_targets(all_targets, mp) == BoundLoop(all_targets, 1, <<>>, mp)

(***************************************************************************)
(* The discovery run.                                                      *)
(***************************************************************************)
NoUrl == Url("", "", <<>>)
NoBrief == [discovery_health |-> "", total |-> 0, domains_present |-> 0,
            domains |-> [d \in TrustDomains |-> <<>>]]

\* What the user may have typed, after normalize_url.
BaseUrls == {Url("https", "h1", <<>>), Url("http", "h1", <<>>),
             Url("https", "h1", <<"/", "a">>)}

\* Anchors a homepage may carry.
RunHrefs == {Href("rel", "", "", <<"/", "a", "/">>, FALSE),
             Href("abs", "http", "h1", <<"/", "a">>, FALSE),
             Href("rel", "", "", <<"/", "help">>, TRUE),
             Href("abs", "https", "h2", <<"/", "a">>, FALSE)}

HomeTexts ==
    {EmptyText}
    \cup {Text(TRUE, tag, hrefs, FALSE, FALSE, 0, FALSE, FALSE) :
            tag \in BOOLEAN, hrefs \in SeqsUpTo(RunHrefs, MaxAnchors)}

PageTexts ==
    {EmptyText,
     Text(TRUE, TRUE, <<>>, FALSE, FALSE, 0, FALSE, FALSE),
     Text(TRUE, FALSE, <<>>, TRUE, TRUE, 2, TRUE, FALSE)}

\* Where redirects may lead.
HomeFinals(u) == {u, Url("https", "h1", <<"/">>)}
PageFinals(u) == {u, Url("https", "h1", <<"/", "a">>), Url("https", "h2", <<>>)}

Statuses == {"200", "404"}

HomeResponses(u) ==
    {Response(TRUE, u, "None", FALSE, EmptyText)}
    \cup {Response(FALSE, f, st, ct, t) :
            f \in HomeFinals(u), st \in Statuses, ct \in BOOLEAN, t \in HomeTexts}

PageResponses(u) ==
    {Response(TRUE, u, "None", FALSE, EmptyText)}
    \cup {Response(FALSE, f, st, ct, t) :
            f \in PageFinals(u), st \in Statuses, ct \in BOOLEAN, t \in PageTexts}

RunInit ==
    /\ pc = "start"
    /\ base_url \in BaseUrls
    /\ max_pages \in 1..MaxPagesBound
    /\ judgment_mode \in BOOLEAN
    /\ final_home = NoUrl
    /\ base_origin = NoUrl
    /\ candidate_links = <<>>
    /\ bounded = <<>>
    /\ idx = 0
    /\ pages = <<>>
    /\ fetch_errors = <<>>
    /\ requests_made = <<>>
    /\ brief = NoBrief

RunIdle ==
    /\ pc = "idle"
    /\ base_url = NoUrl
    /\ max_pages = 1
    /\ judgment_mode = FALSE
    /\ final_home = NoUrl
    /\ base_origin = NoUrl
    /\ candidate_links = <<>>
    /\ bounded = <<>>
    /\ idx = 0
    /\ pages = <<>>
    /\ fetch_errors = <<>>
    /\ requests_made = <<>>
    /\ brief = NoBrief

\* Homepage fetch without usable HTML: final_home is bound from safe_get,
\* then st.error, st.stop().
FetchHomeAbort ==
    /\ pc = "start"
    /\ \E resp \in HomeResponses(base_url) :
          LET r == safe_get(base_url, resp)
          IN  /\ ~r.html.present
              /\ requests_made' = Append(requests_made, [url |-> base_url, ok |-> FALSE])
              /\ final_home' = r.final_url
    /\ pc' = "aborted"
    /\ UNCHANGED <<base_url, max_pages, judgment_mode, base_origin,
                   candidate_links, bounded, idx, pages, fetch_errors, brief>>
    /\ UNCHANGED <<sevVars, normVars, linkVars>>

\* Homepage fetch with HTML: origin, candidate links, bounded list.
FetchHomeOk ==
    /\ pc = "start"
    /\ \E resp \in HomeResponses(base_url) :
          LET r == safe_get(base_url, resp)
              origin == Url(r.final_url.scheme, r.final_url.netloc, <<>>)
              links == extract_internal_links(r.html.hrefs, r.final_url)
              all_targets == <<origin>> \o links
          IN  /\ r.html.present
              /\ requests_made' = Append(requests_made, [url |-> base_url, ok |-> TRUE])
              /\ final_home' = r.final_url
              /\ base_origin' = origin
              /\ candidate_links' = links
              /\ bounded' = bound_targets(all_targets, max_pages)
    /\ idx' = 1
    /\ pages' = <<>>
    /\ fetch_errors' = <<>>
    /\ pc' = "fetching"
    /\ UNCHANGED <<base_url, max_pages, judgment_mode, brief>>
    /\ UNCHANGED <<sevVars, normVars, linkVars>>

PageRecord(fu, html, jm) ==
    LET td == classify_trust_domain(fu)
        sigs == detect_observable_signals(html)
        prop == propose_discovery_severity(sigs, jm)
    IN  [url |-> fu, trust_domain |-> td, signals |-> sigs,
         proposed_attention_band |-> prop[1], confidence |-> prop[2],
         senior_review_prompt |-> senior_review_prompt(td)]

\* A loop body in which a failed fetch stops the run.
FetchPageStopOnError ==
    /\ pc = "fetching"
    /\ idx <= Len(bounded)
    /\ \E resp \in PageResponses(bounded[idx]) :
          LET u == bounded[idx]
              r == safe_get(u, resp)
          IN  /\ requests_made' = Append(requests_made, [url |-> u, ok |-> r.html.present])
              /\ IF r.html.present
                 THEN /\ pages' = Append(pages, PageRecord(r.final_url, r.html, judgment_mode))
                      /\ pc' = pc
                 ELSE /\ pages' = pages
                      /\ pc' = "aborted"
              /\ UNCHANGED fetch_errors
    /\ idx' = idx + 1
    /\ UNCHANGED <<base_url, max_pages, judgment_mode, final_home, base_origin,
                   candidate_links, bounded, brief>>
    /\ UNCHANGED <<sevVars, normVars, linkVars>>

\* One iteration of "for u in bounded".
FetchPage ==
    /\ pc = "fetching"
    /\ idx <= Len(bounded)
    /\ \E resp \in PageResponses(bounded[idx]) :
          LET u == bounded[idx]
              r == safe_get(u, resp)
          IN  /\ requests_made' = Append(requests_made, [url |-> u, ok |-> r.html.present])
              /\ IF r.html.present
                 THEN /\ pages' = Append(pages, PageRecord(r.final_url, r.html, judgment_mode))
                      /\ UNCHANGED fetch_errors
                 ELSE /\ fetch_errors' = Append(fetch_errors,
                              [url |-> u, status |-> r.status, error |-> r.error])
                      /\ UNCHANGED pages
    /\ idx' = idx + 1
    /\ UNCHANGED <<pc, base_url, max_pages, judgment_mode, final_home, base_origin,
                   candidate_links, bounded, brief>>
    /\ UNCHANGED <<sevVars, normVars, linkVars>>

discovery_health(n) ==
    IF n >= 6 THEN "High" ELSE IF n >= 2 THEN "Medium" ELSE "Limited"

\* After the loop: discovery health and the brief.  The archetype guess and
\* the rendering read home_html and pages without changing the run's state.
Finish ==
    /\ pc = "fetching"
    /\ idx > Len(bounded)
    /\ brief' = LET b == build_brief(pages)
                IN  [discovery_health |-> discovery_health(Len(pages)),
                     total |-> b.total, domains_present |-> b.domains_present,
                     domains |-> b.domains]
    /\ pc' = "done"
    /\ UNCHANGED <<base_url, max_pages, judgment_mode, final_home, base_origin,
                   candidate_links, bounded, idx, pages, fetch_errors, requests_made>>
    /\ UNCHANGED <<sevVars, normVars, linkVars>>

(***************************************************************************)
(* The pure functions, each applied once to an input drawn by Init.        *)
(***************************************************************************)
SignalSeqs == SeqsUpTo({Signal("s", c) : c \in Confidences}, MaxSignals)

SevInit ==
    /\ signals \in SignalSeqs
    /\ other_signals \in SignalSeqs
    /\ sev_mode \in BOOLEAN
    /\ proposal = <<>>
    /\ other_proposal = <<>>

SevIdle ==
    /\ signals = <<>>
    /\ other_signals = <<>>
    /\ sev_mode = FALSE
    /\ proposal = <<>>
    /\ other_proposal = <<>>

Propose ==
    /\ proposal = <<>>
    /\ proposal' = propose_discovery_severity(signals, sev_mode)
    /\ other_proposal' = propose_discovery_severity(other_signals, sev_mode)
    /\ UNCHANGED <<signals, other_signals, sev_mode>>
    /\ UNCHANGED <<runVars, normVars, linkVars>>

NormInit ==
    /\ raw \in SeqsUpTo(Chars, MaxLen)
    /\ normalized = <<>>
    /\ norm_done = FALSE

NormIdle ==
    /\ raw = <<>>
    /\ normalized = <<>>
    /\ norm_done = FALSE

Normalize ==
    /\ ~norm_done
    /\ normalized' = normalize_url(raw)
    /\ norm_done' = TRUE
    /\ UNCHANGED raw
    /\ UNCHANGED <<runVars, sevVars, linkVars>>

LinkBases == {Url(s, n, p) : s \in Schemes, n \in Netlocs, p \in {<<>>, <<"/", "a">>}}

LinksInit ==
    /\ anchors \in SeqsUpTo(Hrefs, MaxAnchors)
    /\ link_base \in LinkBases
    /\ links_out = <<>>
    /\ links_done = FALSE

LinksIdle ==
    /\ anchors = <<>>
    /\ link_base = NoUrl
    /\ links_out = <<>>
    /\ links_done = FALSE

Extract ==
    /\ ~links_done
    /\ links_out' = extract_internal_links(anchors, link_base)
    /\ links_done' = TRUE
    /\ UNCHANGED <<anchors, link_base>>
    /\ UNCHANGED <<runVars, sevVars, normVars>>

(***************************************************************************)
(* Specifications.                                                         *)
(***************************************************************************)
Init == RunInit /\ SevIdle /\ NormIdle /\ LinksIdle
Next == FetchHomeAbort \/ FetchHomeOk \/ FetchPage \/ Finish
Spec == Init /\ [][Next]_vars

InitSev == RunIdle /\ SevInit /\ NormIdle /\ LinksIdle
NextSev == Propose
SpecSev == InitSev /\ [][NextSev]_vars

InitNorm == RunIdle /\ SevIdle /\ NormInit /\ LinksIdle
NextNorm == Normalize
SpecNorm == InitNorm /\ [][NextNorm]_vars

InitLinks == RunIdle /\ SevIdle /\ NormIdle /\ LinksInit
NextLinks == Extract
SpecLinks == InitLinks /\ [][NextLinks]_vars

(***************************************************************************)
(* Reference notions the properties are stated with.                       *)
(***************************************************************************)
BandIndex(b) ==
    CASE b = "Low" -> 1 [] b = "Medium" -> 2 [] b = "High" -> 3 [] b = "Critical" -> 4

CeilingOf(c) ==
    CASE c = "Low" -> "Medium" [] c = "Moderate" -> "High" [] c = "High" -> "Critical"

ConfOrder(c) == CASE c = "Low" -> 1 [] c = "Moderate" -> 2 [] c = "High" -> 3

RefConf(sigs) ==
    CHOOSE c \in Confidences :
        /\ \E i \in 1..Len(sigs) : sigs[i].confidence = c
        /\ \A i \in 1..Len(sigs) : ConfOrder(sigs[i].confidence) <= ConfOrder(c)

RefRaw(count, strict) ==
    IF strict
    THEN IF count >= 4 THEN "High" ELSE IF count >= 2 THEN "Medium" ELSE "Low"
    ELSE IF count >= 3 THEN "Medium" ELSE "Low"

RefCap(band, c) ==
    IF BandIndex(band) <= BandIndex(CeilingOf(c)) THEN band ELSE CeilingOf(c)

Letters == {"h", "t", "p", "a"}

\* A scheme: letters, then "://".
HasScheme(s) ==
    \E i \in 2..(Len(s) - 2) :
        /\ SubSeq(s, i, i + 2) = <<":", "/", "/">>
        /\ \A j \in 1..(i - 1) : s[j] \in Letters

OriginOf(u) == <<u.scheme, u.netloc>>

LaterRequests == SubSeq(requests_made, 2, Len(requests_made))

FailedLater == SelectSeq(LaterRequests, LAMBDA q : ~q.ok)

(***************************************************************************)
(* Properties.                                                             *)
(***************************************************************************)

\* C1: the proposed band never exceeds the ceiling of the returned
\* confidence (Low -> at most Medium, Moderate -> at most High); with
\* confidence Low the band is Low or Medium.
C1_SeverityCap ==
    proposal # <<>> =>
        /\ BandIndex(proposal[1]) <= BandIndex(CeilingOf(proposal[2]))
        /\ proposal[2] = "Low" => proposal[1] \in {"Low", "Medium"}

\* Four low-confidence signals in judgment mode: raw High, lowered to Medium.
C1_Witness ==
    /\ proposal = <<"Medium", "Low">>
    /\ sev_mode
    /\ Len(signals) >= 4

\* C7: the proposal equals "raw band by count, then cap by the maximum
\* signal confidence"; no signals gives (Low, High); never Critical.
C7_TwoStageReference ==
    proposal # <<>> =>
        /\ proposal = IF signals = <<>> THEN <<"Low", "High">>
                      ELSE <<RefCap(RefRaw(Len(signals), sev_mode), RefConf(signals)),
                             RefConf(signals)>>
        /\ proposal[1] # "Critical"

\* Two signals, Moderate and Low, in discovery mode give (Low, Moderate).
C7_Witness ==
    /\ signals = <<Signal("s", "Moderate"), Signal("s", "Low")>>
    /\ ~sev_mode
    /\ proposal = <<"Low", "Moderate">>

\* C8: for one mode and equal overall confidence, more signals never give
\* a lower band.
C8_Monotone ==
    (/\ proposal # <<>>
     /\ proposal[2] = other_proposal[2]
     /\ Len(other_signals) >= Len(signals))
    => BandIndex(other_proposal[1]) >= BandIndex(proposal[1])

\* Same confidence, more signals, strictly higher band.
C8_Witness ==
    /\ proposal # <<>>
    /\ proposal[2] = other_proposal[2]
    /\ Len(other_signals) > Len(signals)
    /\ signals # <<>>
    /\ BandIndex(other_proposal[1]) > BandIndex(proposal[1])

\* C9: every link the extractor returns has the host of the base URL.
C9_SameOriginClosure ==
    links_done => \A i \in 1..Len(links_out) : links_out[i].netloc = link_base.netloc

\* An absolute link to another host was dropped and another link kept.
C9_Witness ==
    /\ links_done
    /\ links_out # <<>>
    /\ \E i \in 1..Len(anchors) :
          anchors[i].kind \in {"abs", "netrel"} /\ anchors[i].netloc # link_base.netloc

\* C2: the bounded list is at most max_pages long and starts with the origin.
C2_BoundedList ==
    pc \in {"fetching", "done"} =>
        /\ Len(bounded) <= max_pages
        /\ Len(bounded) >= 1
        /\ bounded[1] = Url(final_home.scheme, final_home.netloc, <<>>)

\* The list was cut: more distinct targets than max_pages.
C2_Witness ==
    /\ pc = "fetching"
    /\ max_pages = 2
    /\ Len(bounded) = 2
    /\ Len(candidate_links) = 2
    /\ \A i \in 1..2 : candidate_links[i] # base_origin

\* C5: only the homepage fetch is fatal.  An aborted run made the single
\* homepage request, which failed, and analysed no page; after a good
\* homepage fetch the run never aborts, records every failed URL in
\* fetch_errors, can always take its next step, and ends having fetched
\* every bounded URL and assembled the brief.
C5_OnlyHomepageFatal ==
    /\ pc = "aborted" =>
          /\ Len(requests_made) = 1
          /\ ~requests_made[1].ok
          /\ pages = <<>>
    /\ (requests_made # <<>> /\ ~requests_made[1].ok) => pc = "aborted"
    /\ (requests_made # <<>> /\ requests_made[1].ok) =>
          /\ pc \in {"fetching", "done"}
          /\ Len(fetch_errors) = Len(FailedLater)
          /\ \A i \in 1..Len(FailedLater) : fetch_errors[i].url = FailedLater[i].url
          /\ pc = "fetching" => ENABLED Next
    /\ pc = "done" =>
          /\ Len(LaterRequests) = Len(bounded)
          /\ \A i \in 1..Len(bounded) : LaterRequests[i].url = bounded[i]
          /\ Len(pages) + Len(fetch_errors) = Len(bounded)
          /\ brief.total = Len(pages)

\* A completed run in which a fetch failed and a later one succeeded.
C5_Witness ==
    /\ pc = "done"
    /\ \E i, j \in 2..Len(requests_made) :
          i < j /\ ~requests_made[i].ok /\ requests_made[j].ok

\* C3 as stated: every PageRecord's url has the scheme and host of the
\* homepage's final URL.
C3_PagesSameOrigin ==
    \A i \in 1..Len(pages) : OriginOf(pages[i].url) = OriginOf(final_home)

\* C4 as stated: no URL is requested twice in a run, the homepage fetch
\* included.
C4_OneFetchPerUrl ==
    \A i, j \in 1..Len(requests_made) :
        i # j => requests_made[i].url # requests_made[j].url

\* C10 as stated: no two PageRecords carry the same url.
C10_PageRecordedOnce ==
    \A i, j \in 1..Len(pages) : i # j => pages[i].url # pages[j].url

\* C6 as stated: a non-empty trimmed input is returned unchanged when it
\* has a scheme and with "https://" in front when it has none.
C6_PrefixIffNoScheme ==
    (norm_done /\ strip(raw) # <<>>) =>
        normalized = IF HasScheme(strip(raw)) THEN strip(raw)
                     ELSE HttpsScheme \o strip(raw)

====
